---- MODULE Spec2Model ----
(***************************************************************************)
(* Model of services/data-service/main.go: the bolt "records" bucket, the  *)
(* in-memory job registry (the package-level map `jobs`), the recurring    *)
(* batch processor, on-demand job runs and the HTTP handlers that touch    *)
(* them.                                                                   *)
(*                                                                         *)
(* Conventions.  A Go pointer field (a *time.Time) is a set with at most   *)
(* one element: {} is nil, {t} points at t.  A bolt bucket and the Go map  *)
(* are functions whose DOMAIN is the set of keys present.  uuid.New() is a *)
(* choice of a key that was never handed out before.  time.Now() is the    *)
(* variable now, which only moves forward.  Every write transaction may    *)
(* fail (db.Update returns a non-nil error); the failure is an input of    *)
(* the step that runs the transaction.                                     *)
(*                                                                         *)
(* An access to the Go map `jobs` takes time: it is modelled by a step     *)
(* that begins it and a step that finishes it, so that two overlapping     *)
(* accesses are a state of the model.  The map is not guarded by any lock; *)
(* when an access overlaps a write the Go runtime may stop the process     *)
(* ("fatal error: concurrent map writes" / "concurrent map read and map    *)
(* write") or may not notice.  Both outcomes are modelled.                 *)
(***************************************************************************)
(*                                                                         *)
(* Time is counted in ticks, TicksPerSecond of them to a second, so that a  *)
(* time.Time can carry a fraction of a second that time.RFC3339 does not   *)
(* print.  A record is stored as the json document json.Marshal makes of   *)
(* it and read with json.Unmarshal; the bucket of the model holds, for     *)
(* each key, the DataRecord its stored bytes decode to.                    *)
(*                                                                         *)
(* Responses are what a client sees.  They are kept in resp, createdAs,    *)
(* seen and failed only in the runs whose initial state sets observing;    *)
(* the program's own state never depends on them.                          *)
(*                                                                         *)
(* A bolt transaction whose closure neither sleeps nor waits is one step.  *)
(* writer is bolt's single writer lock, taken by db.Update when it begins  *)
(* and free again when it returns.  The scans of getRecordsHandler and     *)
(* dataMetricsHandler are also modelled one cursor step at a time, with    *)
(* the snapshot their read transaction began at in view.  func main is     *)
(* followed from bolt.Open to the end of the process in mainPc and dbOpen. *)
(***************************************************************************)
EXTENDS Integers, Sequences, FiniteSets, TLC

\* ---------------------------------------------------------------- bounds
MaxRecords == 2          \* record ids ever handed out by uuid.New()
MaxJobs == 2             \* jobs created, where the job registry is examined
MaxRuns == 1             \* jobs created, where the records bucket is examined
MaxTime == 1             \* the clock runs 0..MaxTime
TicksPerSecond == 2      \* resolution of the clock

\* ------------------------------------------------------- program constants
JobBatchSize == 20       \* processPendingRecords(20) in processJob
JobRecordsReported == 20 \* job.Records = 20 in processJob
RetentionHours == 24     \* time.Now().Add(-24 * time.Hour) in cleanupOldRecords
GenerateCount == 50      \* for i := 0; i < 50; i++ in generateTestData
StatusCreated == 201     \* http.StatusCreated
StatusOK == 200          \* the status of a response written without WriteHeader
StatusBadRequest == 400  \* http.StatusBadRequest
StatusNotFound == 404    \* http.StatusNotFound
StatusInternalServerError == 500 \* http.StatusInternalServerError
StatusServiceUnavailable == 503 \* http.StatusServiceUnavailable

Second == TicksPerSecond
Hour == 3600 * Second
DefaultRetention == RetentionHours * Hour

Keys == 1..MaxRecords
JobIds == 1..(IF MaxJobs > MaxRuns THEN MaxJobs ELSE MaxRuns)
Times == 0..MaxTime
Types == {"user_event", "metric"}
Datas == {"d"}
\* Values of the configuration key batch_size: non-positive ones, and every
\* size up to the number of records there can be.
BatchSizes == -1..MaxRecords
\* Cutoffs a cleanup runs with: before, between and after every timestamp.
Cutoffs == 0..(MaxTime + 1)
\* Timestamps a request body may carry.
BodyTimes == {0}

\* The recurring timer goroutine; job runs are named by their job id.
Timer == 0
Invokers == {Timer} \cup JobIds

VARIABLES
    now,            \* time.Now(), in ticks
    store,          \* bucket "records": key -> DataRecord
    usedKeys,       \* record ids uuid.New() returned that were stored (never reused)
    jobs,           \* var jobs map[string]ProcessingJob
    batchSize,      \* viper.GetInt("batch_size")
    pc,             \* position of the timer goroutine and of each job's handler/run
    job,            \* the local variable job of processJob
    records,        \* processPendingRecords' slice records, per invocation: the
                    \* elements its range loop has not visited yet
    rpc,            \* a reading handler inside the jobs map: getJob, getJobs, home
    pendingGauge,   \* dataRecordsTotal{status="pending"}
    processedGauge, \* dataRecordsTotal{status="processed"}
    activeJobs,     \* activeJobs gauge
    crashed,        \* the runtime has thrown a fatal error
    persisted,      \* history: successful write-backs of the current invocation
    timesMarked,    \* history: successful write-backs per record id
    newJob,         \* the local variable job of createJobHandler, per job
    jobResp,        \* what createJobHandler answered, per job
    genLeft,        \* iterations the generateTestData goroutine still has to run
    mainPc,         \* position of func main: start, opened, starting, serving,
                    \* stopping, closed, exited
    dbOpen,         \* the handle db is open: bolt.Open returned it, db.Close() has not run
    writer,         \* the goroutines that hold bolt's writer lock: none or one
    view,           \* the read transaction of a scanning handler: its snapshot,
                    \* its cursor and what its loop has collected
    observing,      \* whether this run keeps the responses (never changes)
    resp,           \* the latest response of a records handler
    createdAs,      \* history: the document createRecordHandler answered, per id
    seen,           \* history: pending records in the bucket at the scan, per invocation;
                    \* -1 when the scan's transaction returned an error
    failed          \* history: a transaction of the current invocation failed

vars == <<now, store, usedKeys, jobs, batchSize, pc, job, records, rpc,
          pendingGauge, processedGauge, activeJobs, crashed, persisted,
          timesMarked, newJob, jobResp, genLeft, mainPc, dbOpen, writer, view,
          observing, resp, createdAs, seen, failed>>

\* ------------------------------------------------------------------ types
\* type DataRecord struct
DataRecord(id, type, data, timestamp, processed, processedAt) ==
    [ID |-> id, Type |-> type, Data |-> data, Timestamp |-> timestamp,
     Processed |-> processed, ProcessedAt |-> processedAt]

\* type ProcessingJob struct
ProcessingJob(id, status, startTime, endTime, recs) ==
    [ID |-> id, Status |-> status, StartTime |-> startTime,
     EndTime |-> endTime, Records |-> recs]

\* The zero ProcessingJob, the value of `job` before processJob assigns it.
NoJob == ProcessingJob(0, "", 0, {}, 0)

\* Request bodies of POST /api/v1/records that decode into a DataRecord: every
\* json field of the struct may be present in the body.
Bodies ==
    [ID : {0} \cup Keys, Type : Types, Data : Datas, Timestamp : BodyTimes,
     Processed : BOOLEAN, ProcessedAt : {{}} \cup {{t} : t \in BodyTimes}]

\* No response has been written.
NoResponse == [op |-> "none"]

\* No scanning handler has a read transaction open.
NoView == [op |-> "none"]

\* ------------------------------------------------------------------- json
\* json.Marshal / json.NewEncoder(w).Encode of a DataRecord, by its struct
\* tags: processed_at is `omitempty`, so a nil ProcessedAt leaves no member.
\* A time.Time is written with its fraction of a second (RFC3339Nano).
MarshalRecord(record) ==
    IF record.ProcessedAt = {}
    THEN [id |-> record.ID, type |-> record.Type, data |-> record.Data,
          timestamp |-> record.Timestamp, processed |-> record.Processed]
    ELSE [id |-> record.ID, type |-> record.Type, data |-> record.Data,
          timestamp |-> record.Timestamp, processed |-> record.Processed,
          processed_at |-> CHOOSE t \in record.ProcessedAt : TRUE]

\* A decoder that reads a time without its fraction of a second.
UnmarshalRecord_seconds(doc) ==
    DataRecord(IF "id" \in DOMAIN doc THEN doc.id ELSE 0,
               IF "type" \in DOMAIN doc THEN doc.type ELSE "",
               IF "data" \in DOMAIN doc THEN doc.data ELSE "",
               IF "timestamp" \in DOMAIN doc
               THEN doc.timestamp - (doc.timestamp % TicksPerSecond) ELSE 0,
               IF "processed" \in DOMAIN doc THEN doc.processed ELSE FALSE,
               IF "processed_at" \in DOMAIN doc THEN {doc.processed_at} ELSE {})

\* json.Unmarshal / Decode into a zero DataRecord: a member that is missing
\* leaves the field at its zero value.
UnmarshalRecord(doc) ==
    DataRecord(IF "id" \in DOMAIN doc THEN doc.id ELSE 0,
               IF "type" \in DOMAIN doc THEN doc.type ELSE "",
               IF "data" \in DOMAIN doc THEN doc.data ELSE "",
               IF "timestamp" \in DOMAIN doc THEN doc.timestamp ELSE 0,
               IF "processed" \in DOMAIN doc THEN doc.processed ELSE FALSE,
               IF "processed_at" \in DOMAIN doc THEN {doc.processed_at} ELSE {})

\* The DataRecord a bucket holds for a record written with json.Marshal.
Stored(record) == UnmarshalRecord(MarshalRecord(record))

\* json.Marshal / Encode of a ProcessingJob: end_time is `omitempty`.
MarshalJob(j) ==
    IF j.EndTime = {}
    THEN [id |-> j.ID, status |-> j.Status, start_time |-> j.StartTime,
          records_processed |-> j.Records]
    ELSE [id |-> j.ID, status |-> j.Status, start_time |-> j.StartTime,
          end_time |-> CHOOSE t \in j.EndTime : TRUE,
          records_processed |-> j.Records]

\* A request body that is not the json of a DataRecord.
MalformedBody == [malformed |-> TRUE]

\* Request bodies of POST /api/v1/records as they arrive.
RawBodies == {MalformedBody} \cup {MarshalRecord(b) : b \in Bodies}

\* A decoder that accepts every body.
DecodeBody_lenient(raw) ==
    [err |-> FALSE, record |-> UnmarshalRecord(raw)]

\* json.NewDecoder(r.Body).Decode(&record)
DecodeBody(raw) ==
    [err |-> raw = MalformedBody, record |-> UnmarshalRecord(raw)]

\* ------------------------------------------------------------------- time
\* Values of the query parameter cutoff: absent, a date such as `date -I`
\* prints (scripts/demo.sh), or a time in the layout time.RFC3339, which on
\* input may carry a fraction of a second.
CutoffParams ==
    {[layout |-> "absent"]} \cup
    {[layout |-> "date", t |-> 0]} \cup
    {[layout |-> "rfc3339", t |-> t] : t \in Cutoffs}

\* time.Parse(time.RFC3339, s)
ParseRFC3339(s) ==
    IF s.layout = "rfc3339" THEN [err |-> FALSE, t |-> s.t] ELSE [err |-> TRUE, t |-> 0]

\* t.Format(time.RFC3339): whole seconds, the fraction is not printed.
FormatRFC3339(t) == [layout |-> "rfc3339", t |-> t - (t % TicksPerSecond)]

\* cleanupOldRecords with the default always in force.
CutoffTime_default(cutoffStr, t) == t - DefaultRetention

\* cleanupOldRecords: the cutoff the sweep runs with, for the parameter
\* cutoffStr at time t.
CutoffTime(cutoffStr, t) ==
    IF cutoffStr.layout # "absent" /\ ~ParseRFC3339(cutoffStr).err
    THEN ParseRFC3339(cutoffStr).t
    ELSE t - DefaultRetention

\* ---------------------------------------------------------------- helpers
\* A Put that leaves nothing but the key it writes.
Put_alone(bucket, k, v) == [x \in {k} |-> v]

\* b.Put(key, value) on a bucket, m[key] = value on a map
Put(bucket, k, v) == [x \in DOMAIN bucket \cup {k} |-> IF x = k THEN v ELSE bucket[x]]

\* b.Delete(key) on a bucket; an absent key is left alone
Delete(bucket, k) == [x \in DOMAIN bucket \ {k} |-> bucket[x]]

\* c.First() / c.Next(): the smallest key of the bucket above k, 0 for nil
NextKey(bucket, k) ==
    LET above == {x \in DOMAIN bucket : x > k}
    IN  IF above = {} THEN 0 ELSE CHOOSE x \in above : \A y \in above : x <= y

\* createRecordHandler: the decoded body with the three fields the handler assigns.
NewRecord(body, id, t) ==
    [body EXCEPT !.ID = id, !.Timestamp = t, !.Processed = FALSE]

\* The scan loop of processPendingRecords, from cursor position k with the
\* slice acc collected so far:
\*   for k, v := c.First(); k != nil && len(records) < batchSize; k, v = c.Next()
RECURSIVE ScanPending(_, _, _, _)
ScanPending(bucket, k, n, acc) ==
    IF k # 0 /\ Len(acc) < n
    THEN ScanPending(bucket, NextKey(bucket, k), n,
                     IF ~bucket[k].Processed THEN Append(acc, bucket[k]) ELSE acc)
    ELSE acc

\* The scan without its len(records) < batchSize test.
FetchPending_unbounded(bucket, n) ==
    ScanPending(bucket, NextKey(bucket, 0), Cardinality(DOMAIN bucket), <<>>)

\* A scan that stops one record short of the batch size.
FetchPending_short(bucket, n) == ScanPending(bucket, NextKey(bucket, 0), n - 1, <<>>)

\* A scan whose cursor has moved on once before the loop reads it.
FetchPending_skipsFirst(bucket, n) ==
    ScanPending(bucket, NextKey(bucket, NextKey(bucket, 0)), n, <<>>)

\* A scan that ends at the first processed record it meets.
FetchPending_stopsAtProcessed(bucket, n) ==
    LET done == {k \in DOMAIN bucket : bucket[k].Processed}
        head == [k \in {x \in DOMAIN bucket : \A d \in done : x < d} |-> bucket[k]]
    IN  ScanPending(head, NextKey(head, 0), n, <<>>)

FetchPending(bucket, n) == ScanPending(bucket, NextKey(bucket, 0), n, <<>>)

\* The loop of cleanupOldRecords inside its one write transaction, from
\* cursor position k; acc holds the bucket as changed so far and deletedCount.
\*   for k, v := c.First(); k != nil; k, v = c.Next()
RECURSIVE SweepOld(_, _, _)
SweepOld(k, cutoffTime, acc) ==
    IF k # 0
    THEN SweepOld(NextKey(acc.bucket, k), cutoffTime,
                  IF acc.bucket[k].Timestamp < cutoffTime
                  THEN [bucket |-> Delete(acc.bucket, k),
                        deletedCount |-> acc.deletedCount + 1]
                  ELSE acc)
    ELSE acc

\* A sweep that also deletes the records stamped exactly at the cutoff.
DeleteOld_inclusive(bucket, cutoffTime) ==
    SweepOld(NextKey(bucket, 0), cutoffTime + 1, [bucket |-> bucket, deletedCount |-> 0])

\* A sweep that stops after its first deletion.
DeleteOld_stopsAfterOne(bucket, cutoffTime) ==
    LET old == {k \in DOMAIN bucket : bucket[k].Timestamp < cutoffTime}
    IN  IF old = {}
        THEN [bucket |-> bucket, deletedCount |-> 0]
        ELSE [bucket |-> Delete(bucket, CHOOSE k \in old : \A x \in old : k <= x),
              deletedCount |-> 1]

DeleteOld(bucket, cutoffTime) ==
    SweepOld(NextKey(bucket, 0), cutoffTime, [bucket |-> bucket, deletedCount |-> 0])

\* A loop that gives the batch up when a write fails.
Remaining_abortsOnError(recs, err) == IF err THEN <<>> ELSE Tail(recs)

\* processPendingRecords: `for _, record := range records` goes on to the
\* next element whatever db.Update returned for this one; err is only read
\* to decide whether the metrics are updated.
Remaining(recs, err) == Tail(recs)

\* A write-back that stamps the record anew.
MarkProcessed_restamps(record, t) ==
    [record EXCEPT !.Processed = TRUE, !.ProcessedAt = {t}, !.Timestamp = t]

\* A write-back that leaves the processed flag as it was.
MarkProcessed_unset(record, t) == [record EXCEPT !.ProcessedAt = {t}]

\* processPendingRecords: record.Processed = true; record.ProcessedAt = &now
MarkProcessed(record, t) ==
    [record EXCEPT !.Processed = TRUE, !.ProcessedAt = {t}]

\* A lookup that answers a missing key with the zero record.
GetRecord_zero(bucket, id) ==
    [op |-> "get", id |-> id, code |-> StatusOK,
     record |-> MarshalRecord(IF id \in DOMAIN bucket THEN bucket[id]
                              ELSE DataRecord(0, "", "", 0, FALSE, {}))]

\* getRecordHandler: b.Get(id); nil is "record not found" and any error is
\* answered 404, otherwise the decoded record is encoded.
GetRecord(bucket, id) ==
    IF id \in DOMAIN bucket
    THEN [op |-> "get", id |-> id, code |-> StatusOK, record |-> MarshalRecord(bucket[id])]
    ELSE [op |-> "get", id |-> id, code |-> StatusNotFound]

\* A lookup that no longer finds a job once it is completed.
GetJob_activeOnly(registry, id) ==
    IF id \in DOMAIN registry /\ registry[id].Status # "completed"
    THEN [op |-> "getJob", id |-> id, code |-> StatusOK, job |-> MarshalJob(registry[id])]
    ELSE [op |-> "getJob", id |-> id, code |-> StatusNotFound]

\* getJobHandler: job, exists := jobs[jobID]; 404 "Job not found" when it
\* does not exist, the job otherwise.
GetJob(registry, id) ==
    IF id \in DOMAIN registry
    THEN [op |-> "getJob", id |-> id, code |-> StatusOK, job |-> MarshalJob(registry[id])]
    ELSE [op |-> "getJob", id |-> id, code |-> StatusNotFound]

\* getJobsHandler: `for _, job := range jobs` appends every entry of the map
\* once, in an order the runtime chooses.
JobLists(registry) ==
    {order \in [1..Cardinality(DOMAIN registry) -> DOMAIN registry] :
        \A a, b \in DOMAIN order : order[a] = order[b] => a = b}

\* getJobsHandler's response: jobList in the order of the loop and its length.
GetJobs(registry, order) ==
    [op |-> "getJobs", code |-> StatusOK,
     jobs |-> [i \in DOMAIN order |-> MarshalJob(registry[order[i]])],
     total |-> Len(order)]

\* A handler that answers with the registry's entry for the job.
CreateJobResponse_registry(local, registry) ==
    [op |-> "createJob", code |-> StatusCreated, job |-> MarshalJob(registry[local.ID])]

\* createJobHandler: w.WriteHeader(http.StatusCreated); Encode(job), where job
\* is the handler's local variable; the registry is not read.
CreateJobResponse(local, registry) ==
    [op |-> "createJob", code |-> StatusCreated, job |-> MarshalJob(local)]

\* A run that reports completion at once.
RunningJob_completes(j) == [j EXCEPT !.Status = "completed"]

\* processJob: job.Status = "running"
RunningJob(j) == [j EXCEPT !.Status = "running"]

\* A completion that leaves EndTime nil.
CompletedJob_noEndTime(j, t) ==
    [j EXCEPT !.Status = "completed", !.Records = JobRecordsReported]

\* A completion that records the end time and the count and leaves the status.
CompletedJob_staysRunning(j, t) ==
    [j EXCEPT !.EndTime = {t}, !.Records = JobRecordsReported]

\* processJob: job.Status = "completed"; job.EndTime = &now; job.Records = 20
CompletedJob(j, t) ==
    [j EXCEPT !.Status = "completed", !.EndTime = {t}, !.Records = JobRecordsReported]

\* The batch size an invocation runs with.
BatchSizeOf(p) == IF p = Timer THEN batchSize ELSE JobBatchSize

\* A ticker whose loop takes every tick at once, wherever the goroutine is.
StartPc_everyTick(p) == IF p = Timer THEN pc[p] ELSE "fetch"

\* Where processPendingRecords is called from, and where it returns to.
StartPc(p) == IF p = Timer THEN "wait" ELSE "fetch"

ReturnPc(p) == IF p = Timer THEN "wait" ELSE "returned"

\* What processPendingRecords does after its scan: with an error or with no
\* record selected it returns, otherwise it enters the loop over the records.
AfterScan_entersLoop(p, found) == "process"

AfterScan(p, found) == IF Len(found) = 0 THEN ReturnPc(p) ELSE "process"

\* An invocation of processPendingRecords is running in goroutine p: it has
\* been called and has not returned.
Executing(p) == pc[p] = "process" \/ (p # Timer /\ pc[p] = "fetch")

\* Goroutine p is inside a write / a read of the map jobs.
MapWriter(p) == pc[p] \in {"insert", "setRunning", "setCompleted"}
MapReader(p) == pc[p] = "lookup"
ReaderInMap == rpc # "idle"

\* Two accesses to the map jobs overlap and one of them is a write.
MapConflict ==
    \E p \in JobIds : MapWriter(p) /\
        \/ \E q \in JobIds \ {p} : MapWriter(q) \/ MapReader(q)
        \/ ReaderInMap

\* The process is alive: goroutines run.
Running == ~crashed /\ mainPc # "exited"

\* The listener accepts requests: srv.Shutdown has not been called.
Serving == Running /\ mainPc = "serving"

\* The outcomes a bolt transaction can have: after db.Close() every
\* transaction returns an error.
TxOutcomes == IF dbOpen THEN BOOLEAN ELSE {FALSE}

\* A db.Update that keeps the writer lock when it returns.
AfterUpdate_held(holder) == {holder}

\* db.Update(fn) has returned: the transaction is committed or rolled back and
\* bolt's writer lock, which it took when it began, is free again.  None of
\* the closures the program passes to db.Update sleeps or waits.
AfterUpdate(holder) == {}

\* A read transaction that reads the bucket as it is at the time of the read.
TxView_live(snapshot, live) == live

\* What a cursor of a read transaction reads: bolt keeps the pages of the
\* version the transaction began at, whatever is committed meanwhile.
TxView(snapshot, live) == snapshot

\* The records of a bucket that are not processed.
Pending(bucket) == {k \in DOMAIN bucket : ~bucket[k].Processed}

\* What an observed run keeps of a value v in place of old.
Kept(v, old) == IF observing THEN v ELSE old

\* --------------------------------------------------------------- initial
\* The state of the process with func main at `position`: the file data.db
\* holds one of `stores`, batch_size is one of `sizes`, the handle is open or
\* not and the timer goroutine is at timerPc.
StateOf(stores, sizes, obs, position, open, timerPc) ==
    /\ now = 0
    /\ store \in stores
    /\ usedKeys = DOMAIN store
    /\ jobs = <<>>
    /\ batchSize \in sizes
    /\ pc = [p \in Invokers |-> IF p = Timer THEN timerPc ELSE "none"]
    /\ job = [p \in JobIds |-> NoJob]
    /\ records = [p \in Invokers |-> <<>>]
    /\ rpc = "idle"
    /\ pendingGauge = 0
    /\ processedGauge = 0
    /\ activeJobs = 0
    /\ crashed = FALSE
    /\ persisted = [p \in Invokers |-> 0]
    /\ timesMarked = [k \in Keys |-> 0]
    /\ newJob = <<>>
    /\ jobResp = <<>>
    /\ genLeft = 0
    /\ mainPc = position
    /\ dbOpen = open
    /\ writer = {}
    /\ view = NoView
    /\ observing = obs
    /\ resp = NoResponse
    /\ createdAs = <<>>
    /\ seen = <<>>
    /\ failed = <<>>

\* The state when main has opened the database, started the timer goroutine
\* and the server.
Start(stores, sizes, obs) == StateOf(stores, sizes, obs, "serving", TRUE, "wait")

\* The state when func main is entered: nothing is open, no goroutine runs.
Boot(stores, sizes, obs) == StateOf(stores, sizes, obs, "start", FALSE, "none")

Init == Start({<<>>}, BatchSizes, FALSE)

\* ---------------------------------------------------------------- actions
recordVars == <<store, usedKeys, pendingGauge, processedGauge, writer>>
jobVars == <<jobs, job, activeJobs, rpc, newJob, jobResp>>
procVars == <<records, persisted, timesMarked, seen, failed>>
mainVars == <<batchSize, crashed, mainPc, observing, genLeft, dbOpen>>
apiVars == <<resp, createdAs, view>>

\* Time passes.
Tick ==
    /\ Running
    /\ now < MaxTime
    /\ now' = now + 1
    /\ UNCHANGED <<recordVars, jobVars, procVars, mainVars, apiVars, pc>>

\* POST /api/v1/records.  A body that does not decode is answered 400; a
\* failed transaction is answered 500 and leaves nothing behind.
createRecordHandler ==
    /\ Serving
    /\ UNCHANGED <<now, processedGauge, jobVars, procVars, mainVars, pc, view>>
    /\ \E raw \in RawBodies :
         LET decoded == DecodeBody(raw)
             malformed == raw = MalformedBody
         IN  IF decoded.err
             THEN /\ resp' = Kept([op |-> "create", malformed |-> malformed,
                                   code |-> StatusBadRequest], resp)
                  /\ UNCHANGED <<store, usedKeys, pendingGauge, createdAs, writer>>
             ELSE \E id \in Keys \ usedKeys, ok \in TxOutcomes :
                    LET record == NewRecord(decoded.record, id, now)
                    IN  /\ writer = {}
                        /\ writer' = AfterUpdate("create")
                        /\ IF ok
                           THEN /\ usedKeys' = usedKeys \cup {id}
                                /\ store' = Put(store, id, Stored(record))
                                /\ pendingGauge' = pendingGauge + 1
                                /\ resp' = Kept([op |-> "create", malformed |-> malformed,
                                                 code |-> StatusCreated,
                                                 record |-> MarshalRecord(record)], resp)
                                /\ createdAs' = Kept(Put(createdAs, id,
                                                         MarshalRecord(record)),
                                                     createdAs)
                           ELSE /\ resp' = Kept([op |-> "create", malformed |-> malformed,
                                                 code |-> StatusInternalServerError], resp)
                                /\ UNCHANGED <<store, usedKeys, pendingGauge, createdAs>>

\* GET /api/v1/records/{id}: a read transaction; nothing is written.
getRecordHandler ==
    /\ Serving
    /\ UNCHANGED <<now, recordVars, jobVars, procVars, mainVars, createdAs, pc, view>>
    /\ \E id \in Keys : resp' = Kept(GetRecord(store, id), resp)

\* DELETE /api/v1/cleanup?cutoff=...  The cutoff is the parsed parameter or
\* the default; a transaction that fails changes nothing.
cleanupOldRecords ==
    /\ Serving
    /\ writer = {}
    /\ writer' = AfterUpdate("cleanup")
    /\ UNCHANGED <<now, usedKeys, pendingGauge, processedGauge, jobVars, procVars,
                   mainVars, createdAs, pc, view>>
    /\ \E cutoffStr \in CutoffParams, ok \in TxOutcomes :
         LET cutoffTime == CutoffTime(cutoffStr, now)
             swept == DeleteOld(store, cutoffTime)
         IN  IF ok
             THEN /\ store' = swept.bucket
                  /\ resp' = Kept([op |-> "cleanup", cutoff |-> cutoffStr,
                                   code |-> StatusOK,
                                   deleted_count |-> swept.deletedCount,
                                   cutoff_time |-> FormatRFC3339(cutoffTime)], resp)
             ELSE /\ resp' = Kept([op |-> "cleanup", cutoff |-> cutoffStr,
                                   code |-> StatusInternalServerError], resp)
                  /\ UNCHANGED store

\* Uncommitted changes that every transaction reads at once.
Committed_dirty(committed, dirty) == dirty

\* What the other transactions read of a bucket that a write transaction has
\* changed and not yet committed: the committed version.
Committed(committed, dirty) == committed

\* cleanupOldRecords step by step.  db.Update begins the write transaction:
\* it takes the writer lock and works on its own version of the bucket.
cleanupOldRecords_begin ==
    /\ Serving
    /\ view = NoView
    /\ writer = {}
    /\ writer' = {"cleanup"}
    /\ \E cutoffStr \in CutoffParams :
         view' = [op |-> "cleanup", cutoff |-> cutoffStr,
                  cutoffTime |-> CutoffTime(cutoffStr, now),
                  before |-> store, snapshot |-> store,
                  k |-> NextKey(store, 0), acc |-> 0]
    /\ UNCHANGED <<now, store, usedKeys, pendingGauge, processedGauge, jobVars,
                   procVars, mainVars, resp, createdAs, pc>>

\* One iteration of cleanupOldRecords' loop: the record under the cursor is
\* decoded and, when older than the cutoff, deleted in the transaction.
cleanupOldRecords_next ==
    /\ Running
    /\ view.op = "cleanup"
    /\ view.k # 0
    /\ LET old == view.snapshot[view.k].Timestamp < view.cutoffTime
           dirty == IF old THEN Delete(view.snapshot, view.k) ELSE view.snapshot
       IN  /\ view' = [view EXCEPT !.snapshot = dirty,
                                   !.k = NextKey(dirty, view.k),
                                   !.acc = IF old THEN @ + 1 ELSE @]
           /\ store' = Committed(store, dirty)
    /\ UNCHANGED <<now, usedKeys, pendingGauge, processedGauge, writer, jobVars,
                   procVars, mainVars, resp, createdAs, pc>>

\* The closure has returned nil: db.Update commits (or fails and rolls back),
\* frees the writer lock, and the handler answers.
cleanupOldRecords_end ==
    /\ Running
    /\ view.op = "cleanup"
    /\ view.k = 0
    /\ writer' = AfterUpdate("cleanup")
    /\ \E ok \in TxOutcomes :
         IF ok
         THEN /\ store' = view.snapshot
              /\ resp' = Kept([op |-> "cleanup", cutoff |-> view.cutoff,
                               code |-> StatusOK,
                               deleted_count |-> view.acc,
                               cutoff_time |-> FormatRFC3339(view.cutoffTime)], resp)
         ELSE /\ store' = view.before
              /\ resp' = Kept([op |-> "cleanup", cutoff |-> view.cutoff,
                               code |-> StatusInternalServerError], resp)
    /\ view' = NoView
    /\ UNCHANGED <<now, usedKeys, pendingGauge, processedGauge, jobVars, procVars,
                   mainVars, createdAs, pc>>

\* GET /api/v1/metrics, its scan taken as one step: the read transaction
\* sees the bucket as it was when it began.
dataMetricsHandler ==
    /\ Serving
    /\ processedGauge' = Cardinality({k \in DOMAIN store : store[k].Processed})
    /\ pendingGauge' = Cardinality({k \in DOMAIN store : ~store[k].Processed})
    /\ UNCHANGED <<now, store, usedKeys, writer, jobVars, procVars, mainVars, apiVars,
                   pc>>

\* A scanning handler calls db.View and positions its cursor with c.First().
\* A transaction that cannot begin is answered 500 by getRecordsHandler;
\* dataMetricsHandler ignores the error and reports zeros.
ScanBegin(op) ==
    /\ Serving
    /\ view = NoView
    /\ \E ok \in TxOutcomes :
         IF ok
         THEN /\ view' = [op |-> op, snapshot |-> store,
                          k |-> NextKey(TxView(store, store), 0), acc |-> <<>>]
              /\ UNCHANGED resp
         ELSE /\ view' = IF op = "metrics"
                         THEN [op |-> op, snapshot |-> <<>>, k |-> 0, acc |-> <<>>]
                         ELSE NoView
              /\ resp' = IF op = "metrics" THEN resp
                         ELSE Kept([op |-> op, code |-> StatusInternalServerError], resp)
    /\ UNCHANGED <<now, recordVars, jobVars, procVars, mainVars, createdAs, pc>>

\* One iteration of `for k, v := c.First(); k != nil; k, v = c.Next()` in a
\* scanning handler: the record under the cursor is decoded and collected.
ScanNext(op) ==
    /\ Running
    /\ view.op = op
    /\ view.k # 0
    /\ LET b == TxView(view.snapshot, store)
       IN  view' = [view EXCEPT
                       !.acc = IF view.k \in DOMAIN b THEN Append(@, b[view.k]) ELSE @,
                       !.k = NextKey(b, view.k)]
    /\ UNCHANGED <<now, recordVars, jobVars, procVars, mainVars, resp, createdAs, pc>>

\* getRecordsHandler's response: the slice records and len(records).
ListResponse(recs) ==
    [op |-> "list", code |-> StatusOK,
     records |-> [i \in 1..Len(recs) |-> MarshalRecord(recs[i])],
     total |-> Len(recs)]

\* dataMetricsHandler's response: totalRecords, processedRecords and
\* pendingRecords as its loop counted them over the records it visited.
MetricsResponse(recs) ==
    [op |-> "metrics", code |-> StatusOK,
     total_records |-> Len(recs),
     processed_records |-> Cardinality({i \in 1..Len(recs) : recs[i].Processed}),
     pending_records |-> Cardinality({i \in 1..Len(recs) : ~recs[i].Processed})]

\* GET /api/v1/records: the records of the bucket and their number.
getRecordsHandler_begin == ScanBegin("list")

getRecordsHandler_next == ScanNext("list")

getRecordsHandler_end ==
    /\ Running
    /\ view.op = "list"
    /\ view.k = 0
    /\ resp' = Kept(ListResponse(view.acc), resp)
    /\ view' = NoView
    /\ UNCHANGED <<now, recordVars, jobVars, procVars, mainVars, createdAs, pc>>

\* GET /api/v1/metrics with the iterations of its scan as steps: the counts
\* of the records it visited, which it also sets the gauges to.
dataMetricsHandler_begin == ScanBegin("metrics")

dataMetricsHandler_next == ScanNext("metrics")

dataMetricsHandler_end ==
    /\ Running
    /\ view.op = "metrics"
    /\ view.k = 0
    /\ LET metrics == MetricsResponse(view.acc)
       IN  /\ processedGauge' = metrics.processed_records
           /\ pendingGauge' = metrics.pending_records
           /\ resp' = Kept(metrics, resp)
    /\ view' = NoView
    /\ UNCHANGED <<now, store, usedKeys, writer, jobVars, procVars, mainVars,
                   createdAs, pc>>

\* tx.CreateBucketIfNotExists: bolt refuses it in a transaction that is not
\* writable (ErrTxNotWritable), whether the bucket exists or not.
CreateBucketIfNotExists(writable) == [err |-> ~writable]

\* healthHandler: db.View(fn) with fn creating the bucket "health_check".
\* db.View begins a read-only transaction (ok: it could begin) and returns
\* fn's error.
HealthCheck(ok) == [err |-> ~ok \/ CreateBucketIfNotExists(FALSE).err]

\* GET /health: 200 "healthy" when the check returned no error, 503
\* "unhealthy" otherwise.  A read transaction writes nothing.
healthHandler ==
    /\ Serving
    /\ \E ok \in TxOutcomes :
         LET dbHealthy == ~HealthCheck(ok).err
         IN  resp' = Kept([op |-> "health", usable |-> ok,
                           code |-> IF dbHealthy THEN StatusOK
                                    ELSE StatusServiceUnavailable,
                           database |-> dbHealthy], resp)
    /\ UNCHANGED <<now, recordVars, jobVars, procVars, mainVars, createdAs, pc, view>>

\* Ages generateTestData gives its records: rand.Intn(3600) whole seconds.
GenAges == {0, Second}

\* POST /api/v1/generate starts a goroutine that stores GenerateCount pending
\* records, one per iteration.  One such goroutine runs at a time here: the
\* iterations of two are the iterations of one that runs longer.
generateTestData ==
    /\ Serving
    /\ genLeft = 0
    /\ genLeft' = GenerateCount
    /\ UNCHANGED <<now, recordVars, jobVars, procVars, apiVars, pc,
                   batchSize, crashed, mainPc, observing, dbOpen>>

\* One iteration of the loop in generateTestData's goroutine.  The gauges are
\* not touched; a failed Put is logged and the loop goes on.
generateTestData_record ==
    /\ Running
    /\ genLeft > 0
    /\ writer = {}
    /\ writer' = AfterUpdate("generate")
    /\ \E id \in Keys \ usedKeys, type \in Types, age \in GenAges, ok \in TxOutcomes :
         LET record == DataRecord(id, type, "d", now - age, FALSE, {})
         IN  IF ok
             THEN /\ usedKeys' = usedKeys \cup {id}
                  /\ store' = Put(store, id, Stored(record))
             ELSE UNCHANGED <<store, usedKeys>>
    /\ genLeft' = genLeft - 1
    /\ UNCHANGED <<now, pendingGauge, processedGauge, jobVars, procVars, apiVars, pc,
                   batchSize, crashed, mainPc, observing, dbOpen>>

\* processPendingRecords, first transaction: fetch pending records.  The
\* timer goroutine enters it from its wait on ticker.C, a job run from
\* processJob.
processPendingRecords_fetch(p) ==
    /\ Running
    /\ pc[p] = StartPc(p)
    /\ writer = {}
    /\ writer' = AfterUpdate(p)
    /\ \E ok \in TxOutcomes :
         LET found == IF ok THEN FetchPending(store, BatchSizeOf(p)) ELSE <<>>
         IN  /\ records' = [records EXCEPT ![p] = found]
             /\ persisted' = [persisted EXCEPT ![p] = 0]
             /\ seen' = Kept(Put(seen, p, IF ok THEN Cardinality(Pending(store)) ELSE -1),
                             seen)
             /\ failed' = Kept(Put(failed, p, ~ok), failed)
             /\ pc' = [pc EXCEPT ![p] = AfterScan(p, found)]
    /\ UNCHANGED <<now, store, usedKeys, pendingGauge, processedGauge, jobVars,
                   timesMarked, mainVars, apiVars>>

\* processDataContinuously: the ticker fires and the loop body calls
\* processPendingRecords(batchSize); the next tick is taken when it has returned.
processDataContinuously == processPendingRecords_fetch(Timer)

\* processPendingRecords, one iteration of `for _, record := range records`.
processPendingRecords_record(p) ==
    /\ Running
    /\ pc[p] = "process"
    /\ writer = {}
    /\ writer' = AfterUpdate(p)
    /\ \E ok \in TxOutcomes :
         LET record == MarkProcessed(Head(records[p]), now)
         IN  /\ IF ok
                THEN /\ store' = Put(store, record.ID, Stored(record))
                     /\ pendingGauge' = pendingGauge - 1
                     /\ processedGauge' = processedGauge + 1
                     /\ persisted' = [persisted EXCEPT ![p] = @ + 1]
                     /\ timesMarked' = [timesMarked EXCEPT ![record.ID] = @ + 1]
                ELSE UNCHANGED <<store, pendingGauge, processedGauge, persisted,
                                 timesMarked>>
             /\ failed' = Kept(Put(failed, p, failed[p] \/ ~ok), failed)
             /\ records' = [records EXCEPT ![p] = Remaining(@, ~ok)]
             /\ pc' = [pc EXCEPT ![p] = IF Remaining(records[p], ~ok) = <<>>
                                        THEN ReturnPc(p) ELSE "process"]
    /\ UNCHANGED <<now, usedKeys, jobVars, seen, mainVars, apiVars>>

\* POST /api/v1/jobs.  The handler builds the job, then assigns jobs[job.ID];
\* when the map write is over it bumps the gauge and starts `go processJob`.
\* The id is the next unused one: job ids are opaque and never compared.  No
\* more than `limit` jobs are created.
createJobHandler_begin(limit) ==
    /\ Serving
    /\ \E j \in 1..limit :
         /\ pc[j] = "none"
         /\ \A i \in JobIds : i < j => pc[i] # "none"
         /\ newJob' = Put(newJob, j, ProcessingJob(j, "pending", now, {}, 0))
         /\ pc' = [pc EXCEPT ![j] = "insert"]
    /\ UNCHANGED <<now, recordVars, procVars, mainVars, apiVars, jobs, job,
                   activeJobs, rpc, jobResp>>

createJobHandler_end(j) ==
    /\ Running
    /\ pc[j] = "insert"
    /\ jobs' = Put(jobs, j, newJob[j])
    /\ activeJobs' = activeJobs + 1
    /\ pc' = [pc EXCEPT ![j] = "spawned"]
    /\ UNCHANGED <<now, recordVars, procVars, mainVars, apiVars, job, rpc, newJob,
                   jobResp>>

\* createJobHandler after `go processJob(job.ID)`: the handler writes its
\* response while the run it started goes on by itself.
createJobHandler_respond(j) ==
    /\ Running
    /\ pc[j] \notin {"none", "insert"}
    /\ j \notin DOMAIN jobResp
    /\ jobResp' = Put(jobResp, j, CreateJobResponse(newJob[j], jobs))
    /\ UNCHANGED <<now, recordVars, procVars, mainVars, apiVars, jobs, job,
                   activeJobs, rpc, newJob, pc>>

\* GET /api/v1/jobs/{id}, GET /api/v1/jobs and GET /: each reads the map jobs
\* (an index, a range loop, len) without changing anything, and answers with
\* what it read.
getJobHandler ==
    /\ \/ Serving /\ rpc = "idle" /\ rpc' = "getJob" /\ UNCHANGED resp
       \/ /\ Running /\ rpc = "getJob" /\ rpc' = "idle"
          /\ \E id \in JobIds : resp' = Kept(GetJob(jobs, id), resp)
    /\ UNCHANGED <<now, recordVars, procVars, mainVars, createdAs, view, jobs, job,
                   activeJobs, newJob, jobResp, pc>>

getJobsHandler ==
    /\ \/ Serving /\ rpc = "idle" /\ rpc' = "getJobs" /\ UNCHANGED resp
       \/ /\ Running /\ rpc = "getJobs" /\ rpc' = "idle"
          /\ \E order \in JobLists(jobs) : resp' = Kept(GetJobs(jobs, order), resp)
    /\ UNCHANGED <<now, recordVars, procVars, mainVars, createdAs, view, jobs, job,
                   activeJobs, newJob, jobResp, pc>>

homeHandler ==
    /\ \/ Serving /\ rpc = "idle" /\ rpc' = "home"
       \/ Running /\ rpc = "home" /\ rpc' = "idle"
    /\ UNCHANGED <<now, recordVars, procVars, mainVars, apiVars, jobs, job,
                   activeJobs, newJob, jobResp, pc>>

\* processJob: job, exists := jobs[jobID]; if !exists { return }
processJob_lookup(j) ==
    /\ Running
    /\ \/ /\ pc[j] = "spawned"
          /\ pc' = [pc EXCEPT ![j] = "lookup"]
          /\ UNCHANGED job
       \/ /\ pc[j] = "lookup"
          /\ IF j \in DOMAIN jobs
             THEN /\ job' = [job EXCEPT ![j] = jobs[j]]
                  /\ pc' = [pc EXCEPT ![j] = "found"]
             ELSE /\ pc' = [pc EXCEPT ![j] = "done"]
                  /\ UNCHANGED job
    /\ UNCHANGED <<now, recordVars, procVars, mainVars, apiVars, jobs, activeJobs,
                   rpc, newJob, jobResp>>

\* processJob: job.Status = "running"; jobs[jobID] = job; then it calls
\* processPendingRecords(20).
processJob_running(j) ==
    /\ Running
    /\ \/ /\ pc[j] = "found"
          /\ job' = [job EXCEPT ![j] = RunningJob(@)]
          /\ pc' = [pc EXCEPT ![j] = "setRunning"]
          /\ UNCHANGED jobs
       \/ /\ pc[j] = "setRunning"
          /\ jobs' = Put(jobs, j, job[j])
          /\ pc' = [pc EXCEPT ![j] = "fetch"]
          /\ UNCHANGED job
    /\ UNCHANGED <<now, recordVars, procVars, mainVars, apiVars, activeJobs, rpc,
                   newJob, jobResp>>

\* processJob: job.Status = "completed"; now := time.Now(); job.EndTime = &now;
\* job.Records = 20; jobs[jobID] = job; activeJobs.Dec()
processJob_completed(j) ==
    /\ Running
    /\ \/ /\ pc[j] = "returned"
          /\ job' = [job EXCEPT ![j] = CompletedJob(@, now)]
          /\ pc' = [pc EXCEPT ![j] = "setCompleted"]
          /\ UNCHANGED <<jobs, activeJobs>>
       \/ /\ pc[j] = "setCompleted"
          /\ jobs' = Put(jobs, j, job[j])
          /\ activeJobs' = activeJobs - 1
          /\ pc' = [pc EXCEPT ![j] = "done"]
          /\ UNCHANGED job
    /\ UNCHANGED <<now, recordVars, procVars, mainVars, apiVars, rpc, newJob, jobResp>>

\* The runtime's check inside the map code: an access that overlaps a write
\* may end the process with "fatal error: concurrent map writes" (or
\* "concurrent map read and map write").  Nothing runs afterwards.
RuntimeFatal ==
    /\ Running
    /\ MapConflict
    /\ crashed' = TRUE
    /\ UNCHANGED <<now, recordVars, jobVars, procVars, apiVars, pc,
                   batchSize, mainPc, observing, genLeft, dbOpen>>

\* func main: bolt.Open.  On an error logrus' Fatal logs and calls os.Exit(1).
main_open ==
    /\ Running
    /\ mainPc = "start"
    /\ \E ok \in BOOLEAN :
         IF ok
         THEN mainPc' = "opened" /\ dbOpen' = TRUE
         ELSE mainPc' = "exited" /\ UNCHANGED dbOpen
    /\ UNCHANGED <<now, recordVars, jobVars, procVars, apiVars, pc,
                   batchSize, crashed, observing, genLeft>>

\* func main: `defer db.Close()` is registered, the transaction that creates
\* the buckets runs and `go processDataContinuously()` starts the timer
\* goroutine.  When the transaction fails Fatal calls os.Exit(1): the process
\* ends there and no deferred call runs.
main_buckets ==
    /\ Running
    /\ mainPc = "opened"
    /\ \E ok \in TxOutcomes :
         IF ok
         THEN mainPc' = "starting" /\ pc' = [pc EXCEPT ![Timer] = "wait"]
         ELSE mainPc' = "exited" /\ UNCHANGED pc
    /\ UNCHANGED <<now, recordVars, jobVars, procVars, apiVars,
                   batchSize, crashed, observing, genLeft, dbOpen>>

\* func main: the goroutine that runs srv.ListenAndServe().  When it cannot
\* listen (the port is taken) Fatal calls os.Exit(1) from that goroutine.
main_listen ==
    /\ Running
    /\ mainPc = "starting"
    /\ \E ok \in BOOLEAN : mainPc' = IF ok THEN "serving" ELSE "exited"
    /\ UNCHANGED <<now, recordVars, jobVars, procVars, apiVars, pc,
                   batchSize, crashed, observing, genLeft, dbOpen>>

\* func main: a signal arrives on quit and srv.Shutdown is called: the
\* listener stops accepting requests.
main_signal ==
    /\ Running
    /\ mainPc = "serving"
    /\ mainPc' = "stopping"
    /\ UNCHANGED <<now, recordVars, jobVars, procVars, apiVars, pc,
                   batchSize, crashed, observing, genLeft, dbOpen>>

\* func main: srv.Shutdown has returned (the handlers are done, or its 30 s
\* are over), main returns and the deferred db.Close() runs.  Nothing stops
\* or waits for the timer goroutine, the job runs or the generator.
main_shutdown ==
    /\ Running
    /\ mainPc = "stopping"
    /\ mainPc' = "closed"
    /\ dbOpen' = FALSE
    /\ UNCHANGED <<now, recordVars, jobVars, procVars, apiVars, pc,
                   batchSize, crashed, observing, genLeft>>

\* The process ends when main has returned; every goroutine ends with it.
main_exit ==
    /\ Running
    /\ mainPc = "closed"
    /\ mainPc' = "exited"
    /\ UNCHANGED <<now, recordVars, jobVars, procVars, apiVars, pc,
                   batchSize, crashed, observing, genLeft, dbOpen>>

\* The records bucket, the batch processor and the job runs that call it.
Next ==
    \/ Tick
    \/ createRecordHandler
    \/ cleanupOldRecords
    \/ dataMetricsHandler
    \/ processDataContinuously
    \/ \E j \in JobIds : processPendingRecords_fetch(j)
    \/ \E p \in Invokers : processPendingRecords_record(p)
    \/ createJobHandler_begin(MaxRuns)
    \/ \E j \in JobIds : createJobHandler_end(j)
    \/ \E j \in JobIds : processJob_lookup(j)
    \/ \E j \in JobIds : processJob_running(j)
    \/ \E j \in JobIds : processJob_completed(j)

Spec == Init /\ [][Next]_vars

\* The records bucket and the recurring batch processor alone.
NextBatch ==
    \/ Tick
    \/ createRecordHandler
    \/ cleanupOldRecords
    \/ dataMetricsHandler
    \/ processDataContinuously
    \/ processPendingRecords_record(Timer)

SpecBatch == Init /\ [][NextBatch]_vars

\* The job registry: the handlers and job runs that access the map jobs, on a
\* store that holds what an earlier run of the service left in data.db.
PersistedStores ==
    {<<>>} \cup
    {[k \in {1} |-> DataRecord(k, "user_event", "d", 0, FALSE, {})]}

InitJobs == Start(PersistedStores, {1}, FALSE)

JobStep(j) ==
    \/ createJobHandler_end(j)
    \/ processJob_lookup(j)
    \/ processJob_running(j)
    \/ processPendingRecords_fetch(j)
    \/ processPendingRecords_record(j)
    \/ processJob_completed(j)

NextJobs ==
    \/ Tick
    \/ createJobHandler_begin(MaxJobs)
    \/ \E j \in JobIds : JobStep(j)
    \/ getJobHandler
    \/ getJobsHandler
    \/ homeHandler
    \/ RuntimeFatal

SpecJobs == InitJobs /\ [][NextJobs]_vars

\* A goroutine that can run is eventually run: the Go scheduler is fair to
\* the handler that is inserting a job and to every job run.
FairSpecJobs == SpecJobs /\ \A j \in JobIds : WF_vars(JobStep(j))

\* createJobHandler's response and the run it started, side by side.
NextResponses ==
    \/ Tick
    \/ createJobHandler_begin(MaxJobs)
    \/ \E j \in JobIds : JobStep(j)
    \/ \E j \in JobIds : createJobHandler_respond(j)

SpecResponses == InitJobs /\ [][NextResponses]_vars

\* Stores an earlier run left behind: records stamped two days, one day and
\* one hour before this run started.
OldTimes == {-2 * DefaultRetention, -DefaultRetention, -Hour}

OldStores ==
    {[k \in 1..n |-> DataRecord(k, "user_event", "d", ts[k], FALSE, {})] :
        n \in 0..(MaxRecords - 1), ts \in [Keys -> OldTimes]}

\* The retention sweeper and its clients, responses kept.
InitCleanup == Start(OldStores, {1}, TRUE)

NextCleanup ==
    \/ Tick
    \/ createRecordHandler
    \/ cleanupOldRecords

SpecCleanup == InitCleanup /\ [][NextCleanup]_vars

\* The records api next to the batch processor, responses kept.
InitRecords == Start({<<>>}, {1}, TRUE)

NextRecords ==
    \/ Tick
    \/ createRecordHandler
    \/ getRecordHandler
    \/ cleanupOldRecords
    \/ processDataContinuously
    \/ processPendingRecords_record(Timer)

SpecRecords == InitRecords /\ [][NextRecords]_vars

\* The batch processor by itself on a store of pending and processed
\* records: nothing else writes the bucket.
DrainStores ==
    {[k \in 1..n |-> DataRecord(k, "user_event", "d", 0, done[k],
                                IF done[k] THEN {0} ELSE {})] :
        n \in 0..MaxRecords, done \in [Keys -> BOOLEAN]}

InitDrain == Start(DrainStores, BatchSizes, TRUE)

NextDrain ==
    \/ Tick
    \/ processDataContinuously
    \/ processPendingRecords_record(Timer)

SpecDrain == InitDrain /\ [][NextDrain]_vars

\* Everything that writes the records bucket.
InitWrites == Start({<<>>}, {1}, FALSE)

NextWrites ==
    \/ Tick
    \/ createRecordHandler
    \/ generateTestData
    \/ generateTestData_record
    \/ cleanupOldRecords
    \/ processDataContinuously
    \/ processPendingRecords_record(Timer)

SpecWrites == InitWrites /\ [][NextWrites]_vars

\* func main shutting the service down while the timer goroutine and a job
\* run are at work.
NextShutdown ==
    \/ processDataContinuously
    \/ processPendingRecords_record(Timer)
    \/ createJobHandler_begin(MaxRuns)
    \/ \E j \in JobIds : JobStep(j)
    \/ main_signal
    \/ main_shutdown
    \/ main_exit

SpecShutdown == InitJobs /\ [][NextShutdown]_vars

\* func main from its first line to the end of the process, with the timer
\* goroutine and the handlers of /health and of POST /api/v1/records.
InitLifecycle == Boot(PersistedStores, {1}, TRUE)

NextLifecycle ==
    \/ main_open
    \/ main_buckets
    \/ main_listen
    \/ Tick
    \/ createRecordHandler
    \/ healthHandler
    \/ processDataContinuously
    \/ processPendingRecords_record(Timer)
    \/ main_signal
    \/ main_shutdown
    \/ main_exit

SpecLifecycle == InitLifecycle /\ [][NextLifecycle]_vars

\* The recurring batch processor working off a backlog after the last record
\* was created, while cleanups still run.  The ticker fires again and again
\* and the Go scheduler runs a goroutine that can run: the timer goroutine
\* always gets its next step, and a scan that can succeed is not refused for
\* ever.
InitBacklog == Start(DrainStores, BatchSizes, TRUE)

NextBacklog ==
    \/ Tick
    \/ cleanupOldRecords
    \/ processDataContinuously
    \/ processPendingRecords_record(Timer)

SpecBacklog == InitBacklog /\ [][NextBacklog]_vars

FairSpecBacklog ==
    /\ SpecBacklog
    /\ WF_vars(processDataContinuously /\ ~failed'[Timer])
    /\ WF_vars(processPendingRecords_record(Timer))

\* The batch processor on a store of pending and processed records, run by
\* the timer and by a job.
NextDrainJob ==
    \/ Tick
    \/ processDataContinuously
    \/ processPendingRecords_record(Timer)
    \/ createJobHandler_begin(MaxRuns)
    \/ \E j \in JobIds : JobStep(j)

SpecDrainJob == InitDrain /\ [][NextDrainJob]_vars

\* The handlers of the records bucket next to the recurring batch processor,
\* on a store that already holds pending and processed records.
InitProcessing == Start(DrainStores, BatchSizes, FALSE)

SpecProcessing == InitProcessing /\ [][NextBatch]_vars

\* The scanning handlers next to everything that commits to the bucket while
\* a scan is under way.
InitScans == Start(PersistedStores, {1}, FALSE)

NextScans ==
    \/ createRecordHandler
    \/ cleanupOldRecords
    \/ processDataContinuously
    \/ processPendingRecords_record(Timer)
    \/ getRecordsHandler_begin
    \/ getRecordsHandler_next
    \/ getRecordsHandler_end
    \/ dataMetricsHandler_begin
    \/ dataMetricsHandler_next
    \/ dataMetricsHandler_end

SpecScans == InitScans /\ [][NextScans]_vars

\* ------------------------------------------------------------------ claims

\* C1: a record is marked processed exactly once: after one invocation has
\* persisted it with processed = true, no invocation persists it again.
C1_MarkedOnce == \A k \in Keys : timesMarked[k] <= 1

\* C2: at most one invocation of processPendingRecords is executing at any
\* time, counting the timer's invocations and every job run.
C2_SingleInvocation == Cardinality({p \in Invokers : Executing(p)}) <= 1

\* C3: every stored record has processedAt present if and only if processed
\* is true.
C3_ProcessedAtIffProcessed ==
    \A k \in DOMAIN store : (store[k].ProcessedAt # {}) <=> store[k].Processed

\* C4: a record stored under a new id is stored with processed = false,
\* processedAt absent, and the id and timestamp the service assigned.
C4_CreatedPending ==
    [][\A k \in DOMAIN store' \ usedKeys :
          /\ store'[k].ID = k
          /\ store'[k].Timestamp = now
          /\ ~store'[k].Processed
          /\ store'[k].ProcessedAt = {}]_vars

\* C5: one invocation of processPendingRecords(batchSize) persists
\* processed = true for at most batchSize records, and for none when
\* batchSize <= 0.
C5_AtMostBatchSize ==
    \A p \in Invokers :
        persisted[p] <= (IF BatchSizeOf(p) > 0 THEN BatchSizeOf(p) ELSE 0)

\* C5 witness: the timer's invocation ran with batch size 1, persisted one
\* record and returned while another record is pending.
C5_Witness ==
    /\ batchSize = 1
    /\ pc[Timer] = "wait"
    /\ persisted[Timer] = 1
    /\ Pending(store) # {}

\* C6: when a job's run has finished, its recordsProcessed is the number of
\* records its own invocation persisted as processed.
C6_RecordsIsCount ==
    \A j \in DOMAIN jobs :
        jobs[j].Status = "completed" => jobs[j].Records = persisted[j]

\* C7: no two operations are inside the job registry at the same time when
\* one of them writes it.
C7_NoConcurrentMapAccess == ~MapConflict

\* C8: the status values stored for a job form a prefix of pending, running,
\* completed: a job enters the registry pending and only moves
\* pending -> running and running -> completed.
C8_StatusOrder ==
    [][\A j \in DOMAIN jobs' :
          IF j \in DOMAIN jobs
          THEN \/ jobs'[j].Status = jobs[j].Status
               \/ <<jobs[j].Status, jobs'[j].Status>> \in
                     {<<"pending", "running">>, <<"running", "completed">>}
          ELSE jobs'[j].Status = "pending"]_vars

\* C8 witness: a job has gone all the way to completed.
C8_Witness == \E j \in DOMAIN jobs : jobs[j].Status = "completed"

\* C9: every job in the registry eventually has status completed.
C9_EveryJobCompletes ==
    \A j \in JobIds :
        (j \in DOMAIN jobs) ~> (j \in DOMAIN jobs /\ jobs[j].Status = "completed")

\* C10: a job's endTime is present if and only if its status is completed,
\* and once present it never changes.
C10_EndTime ==
    /\ [](\A j \in DOMAIN jobs :
             (jobs[j].EndTime # {}) <=> (jobs[j].Status = "completed"))
    /\ [][\A j \in DOMAIN jobs :
             jobs[j].EndTime # {} =>
                 j \in DOMAIN jobs' /\ jobs'[j].EndTime = jobs[j].EndTime]_vars

\* C10 witness: a job completed at time 0 is still in the registry, with that
\* endTime, after the clock has moved on.
C10_Witness ==
    \E j \in DOMAIN jobs :
        jobs[j].Status = "completed" /\ jobs[j].EndTime = {0} /\ now > 0

\* C11: createJobHandler answers without waiting for the run it started: the
\* job in its response has status pending or running, never completed, no
\* end time and 0 records processed; and the handler can write the response
\* wherever the run is, before it has started as well as after it has finished.
C11_AnswersWithoutWaiting ==
    \A j \in JobIds :
        /\ j \in DOMAIN jobResp =>
              /\ jobResp[j].code = StatusCreated
              /\ jobResp[j].job.status \in {"pending", "running"}
              /\ "end_time" \notin DOMAIN jobResp[j].job
              /\ jobResp[j].job.records_processed = 0
        /\ (pc[j] \notin {"none", "insert"} /\ j \notin DOMAIN jobResp /\ Running) =>
              ENABLED createJobHandler_respond(j)

\* C11 witness: one job was answered after its run had completed, another
\* before its run had looked the job up.
C11_Witness ==
    \E i, j \in JobIds :
        /\ i \in DOMAIN jobResp /\ jobResp[i].job.status = "pending"
        /\ i \in DOMAIN jobs /\ jobs[i].Status = "completed"
        /\ j \in DOMAIN jobResp /\ pc[j] = "spawned"

\* The records of a bucket stamped at or after c.
NotBefore(bucket, c) ==
    [k \in {x \in DOMAIN bucket : bucket[x].Timestamp >= c} |-> bucket[k]]

\* C12: a cleanup that runs with cutoff c and succeeds removes exactly the
\* stored records stamped strictly before c: what is left is every record
\* stamped at or after c, unchanged, and the deleted count it returns is the
\* number of records removed.
C12_DeletesExactlyOlder ==
    [][(cleanupOldRecords /\ resp'.code = StatusOK) =>
          /\ store' = NotBefore(store, CutoffTime(resp'.cutoff, now))
          /\ resp'.deleted_count =
                Cardinality(DOMAIN store) - Cardinality(DOMAIN store')]_vars

\* C12 witness: a cleanup has removed a record and left one stamped exactly
\* at its cutoff.
C12_Witness ==
    /\ resp.op = "cleanup" /\ resp.code = StatusOK
    /\ resp.deleted_count >= 1
    /\ resp.cutoff.layout = "rfc3339"
    /\ \E k \in DOMAIN store : store[k].Timestamp = resp.cutoff.t

\* C13: cleanup is idempotent: for every content of the store and every
\* cutoff, a second sweep with the same cutoff deletes nothing and leaves the
\* store as the first left it; and a cleanup request that follows a cleanup
\* request with the same cutoff answers deleted count 0 and changes nothing.
C13_CleanupIdempotent ==
    /\ [](\A c \in Cutoffs \cup {now - DefaultRetention} :
             LET first == DeleteOld(store, c)
             IN  DeleteOld(first.bucket, c) =
                     [bucket |-> first.bucket, deletedCount |-> 0])
    /\ [][(/\ cleanupOldRecords
           /\ resp.op = "cleanup" /\ resp.code = StatusOK
           /\ resp'.code = StatusOK
           /\ resp'.cutoff = resp.cutoff
           /\ resp.cutoff.layout = "rfc3339") =>
              (store' = store /\ resp'.deleted_count = 0)]_vars

\* C13 witness: a cleanup found nothing to delete in a store that a cleanup
\* had swept a record out of, and that still holds a record.
C13_Witness ==
    /\ resp.op = "cleanup" /\ resp.code = StatusOK
    /\ resp.deleted_count = 0
    /\ usedKeys # DOMAIN store
    /\ store # <<>>

\* The cutoff the claim C18 names for a request: the parameter's time when it
\* is a time.RFC3339 string, 24 hours before the request otherwise.
NamedCutoff(cutoffStr, t) ==
    IF cutoffStr.layout = "rfc3339" THEN cutoffStr.t ELSE t - RetentionHours * Hour

\* C18 as the specification words it: a cleanup with no cutoff parameter, or
\* one that is not a timestamp, sweeps with now - 24 h, a parseable cutoff is
\* used as given, and the cutoff returned is that effective cutoff.
C18_ReturnsEffectiveCutoff ==
    [][(cleanupOldRecords /\ resp'.code = StatusOK) =>
          /\ store' = NotBefore(store, NamedCutoff(resp'.cutoff, now))
          /\ resp'.cutoff_time = [layout |-> "rfc3339",
                                  t |-> NamedCutoff(resp'.cutoff, now)]]_vars

\* C18, amended: a cleanup with no cutoff parameter, or one that is not a
\* timestamp, sweeps with now - 24 h, a parseable cutoff is used as given,
\* and the cutoff returned is the effective cutoff cut down to a whole second:
\* it is at most the effective cutoff and less than a second before it.
C18_ReturnsCutoffInSeconds ==
    [][(cleanupOldRecords /\ resp'.code = StatusOK) =>
          LET c == NamedCutoff(resp'.cutoff, now)
              returned == resp'.cutoff_time
          IN  /\ store' = NotBefore(store, c)
              /\ returned.layout = "rfc3339"
              /\ returned.t % Second = 0
              /\ returned.t <= c
              /\ c - returned.t < Second]_vars

\* C18 witness: a cleanup called with a date, as scripts/demo.sh calls it,
\* has swept with the default cutoff, which fell inside a second, and deleted
\* a record; the cutoff it returned is a whole second.
C18_Witness ==
    /\ resp.op = "cleanup" /\ resp.code = StatusOK
    /\ resp.cutoff.layout = "date"
    /\ resp.deleted_count >= 1
    /\ now % Second # 0
    /\ resp.cutoff_time.t = now - (now % Second) - DefaultRetention

\* C14 as the specification words it: a get of an id that create has
\* answered returns the record create returned, field by field.
C14_GetReturnsCreated ==
    [][(getRecordHandler /\ resp'.id \in DOMAIN createdAs) =>
          (resp'.code = StatusOK /\ resp'.record = createdAs[resp'.id])]_vars

\* C14, amended: a get of an id that create has answered, made while no batch
\* write-back has rewritten the record and no cleanup has deleted it, returns
\* the record create returned: id, type, data, timestamp, processed and
\* processedAt are the same.
C14_GetReturnsCreatedUntilRewritten ==
    [][(/\ getRecordHandler
        /\ resp'.id \in DOMAIN createdAs
        /\ resp'.id \in DOMAIN store
        /\ timesMarked[resp'.id] = 0) =>
          (resp'.code = StatusOK /\ resp'.record = createdAs[resp'.id])]_vars

\* C14 witness: a get has returned a record as create returned it, stamped
\* inside a second, after the clock has moved on.
C14_Witness ==
    /\ resp.op = "get" /\ resp.code = StatusOK
    /\ resp.id \in DOMAIN createdAs /\ resp.record = createdAs[resp.id]
    /\ resp.record.timestamp % Second # 0
    /\ timesMarked[resp.id] = 0

\* C17: a get of an id that is not in the records bucket is answered 404 and
\* changes neither the bucket nor the job registry.
C17_GetMissingIsNotFound ==
    [][getRecordHandler =>
          /\ store' = store
          /\ jobs' = jobs
          /\ (resp'.id \notin DOMAIN store => resp'.code = StatusNotFound)]_vars

\* C17 witness: a get of an id that a cleanup had deleted was answered 404
\* while the bucket holds another record.
C17_Witness ==
    /\ resp.op = "get" /\ resp.code = StatusNotFound
    /\ resp.id \in usedKeys \ DOMAIN store
    /\ store # <<>>

\* C19: a create request whose body does not decode is answered 400 and
\* changes neither the records bucket nor the pending gauge.
C19_MalformedBodyRejected ==
    [][(createRecordHandler /\ resp'.op = "create" /\ resp'.malformed) =>
          /\ resp'.code = StatusBadRequest
          /\ store' = store
          /\ pendingGauge' = pendingGauge]_vars

\* C19 witness: a malformed body was answered 400 and the record stored
\* before it is still there, counted by the gauge.
C19_Witness ==
    /\ resp.op = "create" /\ resp.malformed /\ resp.code = StatusBadRequest
    /\ store # <<>>
    /\ pendingGauge = 1

\* The smaller of two numbers.
Min(a, b) == IF a < b THEN a ELSE b

\* C15: when nothing else writes the bucket and no transaction fails, an
\* invocation with batch size B >= 0 that found N pending records has, when
\* it returns, persisted exactly min(N, B) of them as processed and left
\* N - min(N, B) pending; the next invocation starts from those.
C15_ProcessesMinOfPendingAndBatch ==
    (/\ pc[Timer] = "wait"
     /\ Timer \in DOMAIN seen
     /\ ~failed[Timer]
     /\ batchSize >= 0) =>
        /\ persisted[Timer] = Min(seen[Timer], batchSize)
        /\ Cardinality(Pending(store)) = seen[Timer] - Min(seen[Timer], batchSize)

\* C15 witness: with batch size 1 and two pending records, a second
\* invocation found the one record the first had left and processed it: none
\* is pending.
C15_Witness ==
    /\ batchSize = 1
    /\ pc[Timer] = "wait"
    /\ Timer \in DOMAIN seen /\ seen[Timer] = 1 /\ ~failed[Timer]
    /\ persisted[Timer] = 1
    /\ Pending(store) = {}
    /\ Cardinality({k \in Keys : timesMarked[k] = 1}) = 2

\* C16: once a record has been stored with processed = true, whatever is
\* stored under its id later is stored with processed = true: no create,
\* generated record, write-back or write after a cleanup puts it back to
\* pending.
C16_NeverBackToPending ==
    /\ [](\A k \in DOMAIN store : timesMarked[k] > 0 => store[k].Processed)
    /\ [][\A k \in DOMAIN store \cap DOMAIN store' :
             store[k].Processed => store'[k].Processed]_vars

\* C16 witness: a record was processed at time 0; later writes stored
\* another record, pending, at time 1 while the generator was running, and
\* the first record is still stored processed.
C16_Witness ==
    \E k, other \in DOMAIN store :
        /\ timesMarked[k] = 1
        /\ store[k].Processed /\ store[k].ProcessedAt = {0}
        /\ ~store[other].Processed /\ store[other].Timestamp = 1
        /\ genLeft > 0

\* C20: when the store handle has been released and the process is still
\* alive, no invocation of processPendingRecords is in flight, in the timer
\* goroutine or in a job run, and none can start.
C20_QuietBeforeClose ==
    mainPc = "closed" =>
        \A p \in Invokers :
            /\ ~Executing(p)
            /\ ~ENABLED processPendingRecords_fetch(p)

\* C21: the store handle is released on every exit path: when the process
\* has ended, the handle bolt.Open returned, if any, has been closed.
C21_HandleReleasedOnExit == mainPc = "exited" => ~dbOpen

\* C22: the health check answers 200 with checks.database = true whenever
\* the store is open and usable, 503 only when it is not, and never changes
\* the store.
C22_HealthyWhenUsable ==
    [][healthHandler =>
          /\ store' = store
          /\ resp'.usable => (resp'.code = StatusOK /\ resp'.database)
          /\ resp'.code = StatusServiceUnavailable => ~resp'.usable]_vars

\* C23: with a batch size of at least 1 and a timer that keeps firing, unless
\* transactions of the batch processor keep failing, the backlog drains:
\* once no more records are created, from some time on no pending record
\* remains in the bucket, each one stored as processed or deleted.
C23_BacklogDrains ==
    batchSize >= 1 =>
        \/ []<>(Timer \in DOMAIN failed /\ failed[Timer])
        \/ <>[](Pending(store) = {})

\* C23 witness: with batch size 1 the timer has worked off a backlog of two
\* records in two invocations, one record each, while a cleanup found
\* nothing old enough to delete; no pending record is left.
C23_Witness ==
    /\ batchSize = 1
    /\ Pending(store) = {}
    /\ \A k \in Keys : k \in DOMAIN store /\ timesMarked[k] = 1
    /\ resp.op = "cleanup" /\ resp.code = StatusOK /\ resp.deleted_count = 0
    /\ pc[Timer] = "wait"

\* C24: a record removed by cleanup stays removed: a key that comes into the
\* bucket is a fresh id; no write-back of the batch processor puts back an id
\* that is absent from the bucket when it writes.
C24_DeletedStaysDeleted ==
    [][\A k \in DOMAIN store' \ DOMAIN store : k \notin usedKeys]_vars

\* C29: for every stored record with processedAt present, processedAt is at
\* or after the record's timestamp.
C29_ProcessedAtNotBeforeTimestamp ==
    \A k \in DOMAIN store :
        \A t \in store[k].ProcessedAt : t >= store[k].Timestamp

\* C25: when persisting one selected record fails, the bucket is left as it
\* was (the record stays pending), the loop goes on with the next member of
\* the batch, and the invocation ends as it would have: the timer goes back
\* to waiting, a job run goes on to mark its job completed.
C25_FailureDoesNotAbortBatch ==
    /\ [][\A p \in Invokers :
             (/\ pc[p] = "process"
              /\ records'[p] # records[p]
              /\ persisted'[p] = persisted[p]) =>
                 /\ store' = store
                 /\ records'[p] = Tail(records[p])
                 /\ pc'[p] = IF Len(records[p]) > 1 THEN "process" ELSE ReturnPc(p)
                 /\ ~crashed']_vars
    /\ [](\A j \in JobIds :
             (pc[j] = "returned" /\ j \in DOMAIN failed /\ failed[j]) =>
                 ENABLED processJob_completed(j))

\* C25 witness: in a batch of two the write of the first record failed and
\* the second was persisted; the invocation has returned and the first record
\* is still pending.
C25_Witness ==
    /\ pc[Timer] = "wait"
    /\ Timer \in DOMAIN failed /\ failed[Timer]
    /\ seen[Timer] = 2 /\ persisted[Timer] = 1
    /\ 1 \in Pending(store)
    /\ timesMarked[2] = 1

\* The slice sel is the first n pending records of the bucket in key order,
\* or all of them when there are fewer.
IsFirstPending(sel, bucket, n) ==
    LET ids == {sel[i].ID : i \in 1..Len(sel)}
    IN  /\ Len(sel) = Min(n, Cardinality(Pending(bucket)))
        /\ \A i \in 1..Len(sel) : sel[i].ID \in Pending(bucket) /\ sel[i] = bucket[sel[i].ID]
        /\ \A i, j \in 1..Len(sel) : i < j => sel[i].ID < sel[j].ID
        /\ \A k \in Pending(bucket) \ ids : \A i \in ids : i < k

\* C26: the batch an invocation selects is the first min(batchSize, P) of the
\* P pending records, in ascending key order: no pending record with a
\* smaller key is left out while one with a larger key is taken, and no
\* processed record is taken.  It holds of the scan on every bucket for
\* every batch size from 0, and of the slice each invocation goes on with.
C26_SelectsFirstPending ==
    /\ [](\A n \in (0..MaxRecords) \cup {JobBatchSize} :
             IsFirstPending(FetchPending(store, n), store, n))
    /\ [][\A p \in Invokers :
             (pc[p] = StartPc(p) /\ pc'[p] = "process") =>
                 IsFirstPending(records'[p], store, BatchSizeOf(p))]_vars

\* C26 witness: with batch size 1 an invocation has passed over the processed
\* record under key 1 and selected the pending record under key 2.
C26_Witness ==
    /\ batchSize = 1
    /\ pc[Timer] = "process"
    /\ DOMAIN store = {1, 2}
    /\ store[1].Processed /\ ~store[2].Processed
    /\ records[Timer] = <<store[2]>>

\* C27: the batch processor holds no store transaction while it processes a
\* record: whenever an invocation is between its scan and a write-back, or
\* between two write-backs, bolt's writer lock is free, so that a create, a
\* get or a cleanup that arrives then runs without waiting for it.
C27_NoTransactionWhileProcessing ==
    \A p \in Invokers :
        pc[p] = "process" =>
            /\ writer = {}
            /\ Serving =>
                  /\ ENABLED cleanupOldRecords
                  /\ ENABLED getRecordHandler
                  /\ Keys \ usedKeys # {} =>
                        ENABLED (createRecordHandler /\ usedKeys' # usedKeys)

\* C27 witness: an invocation with batch size 2 selected the one pending
\* record there was and has not written it back yet; a record created in
\* the meantime is in the bucket.
C27_Witness ==
    /\ batchSize = 2
    /\ pc[Timer] = "process"
    /\ persisted[Timer] = 0
    /\ Pending(store) = {1, 2}
    /\ records[Timer] = <<store[1]>>

\* The records of a bucket as a sequence in ascending key order.
InKeyOrder(bucket) ==
    LET n == Cardinality(DOMAIN bucket)
        order == CHOOSE f \in [1..n -> DOMAIN bucket] :
                     \A i, j \in 1..n : i < j => f[i] < f[j]
    IN  [i \in 1..n |-> bucket[order[i]]]

\* C28: a full scan reflects the bucket as it was at one point in time, the
\* moment its transaction began: when the loop of getRecordsHandler or of
\* dataMetricsHandler has ended, what the handler answers is the list, or
\* the counts, of exactly the records the bucket held at that moment,
\* whatever was committed while the scan went on; and the counts satisfy
\* total = processed + pending.
C28_ScanIsSnapshot ==
    (view.op \in {"list", "metrics"} /\ view.k = 0) =>
        LET snapshot == view.snapshot
            list == ListResponse(view.acc)
            metrics == MetricsResponse(view.acc)
        IN  /\ view.op = "list" =>
                  /\ list.total = Cardinality(DOMAIN snapshot)
                  /\ list.records = [i \in 1..list.total |->
                                        MarshalRecord(InKeyOrder(snapshot)[i])]
            /\ view.op = "metrics" =>
                  /\ metrics.total_records = Cardinality(DOMAIN snapshot)
                  /\ metrics.pending_records = Cardinality(Pending(snapshot))
                  /\ metrics.total_records =
                        metrics.processed_records + metrics.pending_records

\* C28 witness: a listing has finished its loop with the one pending record
\* the bucket held when it began, while a write-back and a create have
\* committed since: the bucket now holds that record processed, and another.
C28_Witness ==
    /\ view.op = "list" /\ view.k = 0
    /\ Len(view.acc) = 1 /\ ~view.acc[1].Processed
    /\ DOMAIN store = {1, 2}
    /\ store[1].Processed

\* C30: a stored record's id, type, payload and timestamp never change:
\* the record under a key carries that key as its id, has the id, type, data
\* and timestamp create answered for it, and no step, a write-back of the
\* batch processor included, changes any of the four.
C30_CreationFieldsImmutable ==
    /\ [](\A k \in DOMAIN store :
             /\ store[k].ID = k
             /\ k \in DOMAIN createdAs =>
                   LET doc == MarshalRecord(store[k])
                   IN  /\ doc.id = createdAs[k].id
                       /\ doc.type = createdAs[k].type
                       /\ doc.data = createdAs[k].data
                       /\ doc.timestamp = createdAs[k].timestamp)
    /\ [][\A k \in DOMAIN store \cap DOMAIN store' :
             /\ store'[k].ID = store[k].ID
             /\ store'[k].Type = store[k].Type
             /\ store'[k].Data = store[k].Data
             /\ store'[k].Timestamp = store[k].Timestamp]_vars

\* C30 witness: a record created at time 0 with type metric was written back
\* at time 1 and is stored with its timestamp 0 and its type.
C30_Witness ==
    \E k \in DOMAIN store \cap DOMAIN createdAs :
        /\ timesMarked[k] = 1
        /\ store[k].ProcessedAt = {1}
        /\ store[k].Timestamp = 0
        /\ store[k].Type = "metric"
        /\ createdAs[k].timestamp = 0

\* The selection scan of p's latest invocation returned a store error: the
\* invocation returned at `if err != nil || len(records) == 0`.
ScanFailed(p) == p \in DOMAIN seen /\ seen[p] < 0

\* C31: a job whose batch processor invocation could not proceed at all (its
\* selection scan failed with a store error) ends in a terminal state
\* "failed", distinct from "completed", and a job becomes failed only from
\* running.  Stated for the run that is over: its job is in the registry as
\* failed, not as completed.
C31_ScanFailureEndsFailed ==
    \A j \in JobIds :
        (ScanFailed(j) /\ pc[j] = "done") =>
            /\ j \in DOMAIN jobs
            /\ jobs[j].Status = "failed"
            /\ jobs[j].Status # "completed"

\* p's scan has just run: a step that leaves p at the call of
\* processPendingRecords is no step of p unless it recorded the scan anew.
Scanned(p) ==
    /\ pc[p] = StartPc(p)
    /\ p \in DOMAIN seen'
    /\ \/ p \notin DOMAIN seen
       \/ seen'[p] # seen[p]
       \/ failed'[p] # failed[p]
       \/ pc'[p] # pc[p]

\* C32: an invocation of the batch processor whose scan succeeds and selects
\* no record writes nothing: the records bucket and both gauges are as
\* before, nothing is written back, and the invocation has returned without
\* an error and without ending the process.
C32_EmptyBatchIsNoOp ==
    [][\A p \in Invokers :
          (Scanned(p) /\ ~failed'[p] /\ records'[p] = <<>>) =>
              /\ store' = store
              /\ pendingGauge' = pendingGauge
              /\ processedGauge' = processedGauge
              /\ timesMarked' = timesMarked
              /\ persisted'[p] = 0
              /\ pc'[p] = ReturnPc(p)
              /\ ~crashed']_vars

\* C32 witness: the timer's invocation found no pending record in a bucket
\* that holds records, all of them processed, and a job's invocation that
\* found none has returned.
C32_Witness ==
    /\ Timer \in DOMAIN seen /\ seen[Timer] = 0 /\ ~failed[Timer]
    /\ pc[Timer] = "wait" /\ records[Timer] = <<>>
    /\ store # <<>>
    /\ \E j \in JobIds :
          /\ j \in DOMAIN seen /\ seen[j] = 0 /\ ~failed[j]
          /\ pc[j] = "returned"

\* C33: the gauges count the stored records: the pending gauge is the number
\* of stored records not yet processed and is never negative, the processed
\* gauge is the number of stored records that are processed.  (A create and a
\* write-back each update store and gauge in one step here, so no state lies
\* between the two.)
C33_GaugesCountRecords ==
    /\ pendingGauge = Cardinality(Pending(store))
    /\ processedGauge = Cardinality(DOMAIN store \ Pending(store))
    /\ pendingGauge >= 0

\* The jobs in the registry that are not completed.
ActiveJobs(registry) == {j \in DOMAIN registry : registry[j].Status # "completed"}

\* C34: the active-jobs gauge is the number of jobs in the registry that are
\* not completed and is never negative; a step raises it by one for each job
\* it adds to the registry and lowers it by one for each job it completes,
\* and a completed job stays completed.  (The registry write and the gauge
\* update of a handler or a run are one step here.)
C34_ActiveJobsGauge ==
    /\ [](/\ activeJobs = Cardinality(ActiveJobs(jobs))
          /\ activeJobs >= 0)
    /\ [][/\ activeJobs' - activeJobs =
                Cardinality(DOMAIN jobs' \ DOMAIN jobs)
                  - Cardinality(ActiveJobs(jobs) \ ActiveJobs(jobs'))
          /\ \A j \in DOMAIN jobs \ ActiveJobs(jobs) :
                j \in DOMAIN jobs' \ ActiveJobs(jobs')]_vars

\* C34 witness: of two created jobs one has completed and one is running,
\* and the gauge reads one.
C34_Witness ==
    /\ DOMAIN jobs = {1, 2}
    /\ \E j \in DOMAIN jobs : jobs[j].Status = "completed" /\ pc[j] = "done"
    /\ \E j \in DOMAIN jobs : jobs[j].Status = "running"
    /\ activeJobs = 1

\* C35: the timer's invocations of the batch processor never overlap: while
\* one is running the ticker loop cannot begin another, whether or not the
\* interval has elapsed; an invocation begins only when the one before it has
\* returned, with nothing of its batch left.
C35_TimerInvocationsDoNotOverlap ==
    /\ [](Executing(Timer) => ~ENABLED processDataContinuously)
    /\ [][Scanned(Timer) => (~Executing(Timer) /\ records[Timer] = <<>>)]_vars

\* C35 witness: the timer's invocation has written back one record of two and
\* is still running when the clock has moved on.
C35_Witness ==
    /\ Executing(Timer)
    /\ persisted[Timer] = 1 /\ Len(records[Timer]) = 1
    /\ now = MaxTime

\* The sweep taken step by step next to the other users of the bucket: the
\* reads of a record and of the metrics, create and the timer's batches.
InitSweep == Start(DrainStores, {1}, FALSE)

NextSweep ==
    \/ Tick
    \/ createRecordHandler
    \/ getRecordHandler
    \/ dataMetricsHandler
    \/ processDataContinuously
    \/ processPendingRecords_record(Timer)
    \/ cleanupOldRecords_begin
    \/ cleanupOldRecords_next
    \/ cleanupOldRecords_end

SpecSweep == InitSweep /\ [][NextSweep]_vars

\* C36: cleanup's scan and deletions are one write transaction.  While it
\* runs the bucket the others read is the bucket it began with, whatever it
\* has deleted so far, no create can add a record and no batch step can run
\* its transaction; when it ends the bucket is either that bucket without
\* every record older than the cutoff, or that bucket unchanged.
C36_SweepIsAtomic ==
    /\ [](view.op = "cleanup" =>
             /\ store = view.before
             /\ ~ENABLED (createRecordHandler /\ store' # store)
             /\ ~ENABLED processDataContinuously
             /\ ~ENABLED processPendingRecords_record(Timer))
    /\ [][(view.op = "cleanup" /\ view'.op # "cleanup") =>
             store' \in {view.before,
                         DeleteOld(view.before, view.cutoffTime).bucket}]_vars

\* C36 witness: the sweep has deleted one of two old records in its
\* transaction and has the other still to visit, while the bucket read by
\* the metrics handler, whose gauge says two pending, holds both.
C36_Witness ==
    /\ view.op = "cleanup"
    /\ view.acc = 1 /\ view.k # 0
    /\ view.snapshot[view.k].Timestamp < view.cutoffTime
    /\ Cardinality(DOMAIN store) = 2
    /\ pendingGauge = 2

\* C37: a create whose body decodes adds exactly one record, under a key the
\* bucket did not hold, and leaves every record that was there as it was; it
\* answers 201 with that record and raises the pending gauge by one.  When
\* the store write fails it answers 500, the bucket is as before and the
\* gauge is not raised.
C37_CreateAddsOneRecord ==
    [][(createRecordHandler /\ resp'.op = "create" /\ ~resp'.malformed) =>
          IF resp'.code = StatusCreated
          THEN /\ \E id \in DOMAIN store' \ DOMAIN store :
                     /\ DOMAIN store' = DOMAIN store \cup {id}
                     /\ MarshalRecord(store'[id]) = resp'.record
               /\ \A k \in DOMAIN store : store'[k] = store[k]
               /\ pendingGauge' = pendingGauge + 1
          ELSE /\ resp'.code \in {StatusInternalServerError, StatusBadRequest}
               /\ store' = store
               /\ pendingGauge' = pendingGauge]_vars

\* C37 witness: a create was answered 201 and its record is in the bucket
\* next to the record that was there before, which is unchanged.
C37_Witness ==
    /\ resp.op = "create" /\ resp.code = StatusCreated
    /\ DOMAIN store = {1, 2}
    /\ resp.record.id = 2
    /\ store[1].Timestamp < 0
    /\ pendingGauge = 1

\* The job registry and its readers, responses kept.
InitRegistry == Start(PersistedStores, {1}, TRUE)

SpecRegistry == InitRegistry /\ [][NextJobs]_vars

\* C38: a job is never removed from the registry.  Every job for which
\* createJob has answered is in the registry from then on under its id; a
\* getJob for an id in the registry answers 200 with that job, a getJob for
\* an id that is not in it answers 404, a listing holds every job of the
\* registry exactly once, and neither changes the registry.
C38_JobsAreNeverRemoved ==
    /\ [](\A j \in DOMAIN jobResp : j \in DOMAIN jobs /\ jobs[j].ID = jobResp[j].job.id)
    /\ [][/\ \A j \in DOMAIN jobs : j \in DOMAIN jobs' /\ jobs'[j].ID = j
          /\ (rpc = "getJob" /\ rpc' = "idle") =>
                /\ resp'.op = "getJob"
                /\ IF resp'.id \in DOMAIN jobs
                   THEN resp'.code = StatusOK /\ resp'.job = MarshalJob(jobs[resp'.id])
                   ELSE resp'.code = StatusNotFound
                /\ jobs' = jobs
          /\ (rpc = "getJobs" /\ rpc' = "idle") =>
                /\ resp'.op = "getJobs"
                /\ resp'.total = Cardinality(DOMAIN jobs)
                /\ \A j \in DOMAIN jobs :
                      Cardinality({i \in DOMAIN resp'.jobs : resp'.jobs[i].id = j}) = 1
                /\ jobs' = jobs]_vars

\* C38 witness: with two jobs in the registry, the first of them completed,
\* a getJob for the completed one was answered 200 with it.
C38_Witness ==
    /\ DOMAIN jobs = {1, 2}
    /\ jobs[1].Status = "completed"
    /\ resp.op = "getJob" /\ resp.id = 1 /\ resp.code = StatusOK
    /\ resp.job.status = "completed"

====
